---- MODULE Spec2Model ----
(***************************************************************************)
(* A model of package rope (fvbommel/sortorder, rope/): the rope handle,   *)
(* its Leaf and Concat nodes, the concatenation helpers, prefix/postfix    *)
(* drop and slicing, the rebalancer with its Fibonacci cache and the       *)
(* streaming Reader.                                                       *)
(*                                                                         *)
(* Go values are modelled as follows.                                      *)
(*   - a leaf is a string value:          [k |-> "leaf", s |-> <<...>>]    *)
(*   - a *concat is a pointer:            [k |-> "concat", a |-> address]  *)
(*     into heap, the sequence of all concat structs ever allocated        *)
(*   - a Rope is a struct value:          [k |-> "Rope", node |-> n]       *)
(*     Rope embeds the node interface, so a Rope value is itself a node    *)
(*     (its depth, length, dropPrefix, ... are promoted from its field)    *)
(*   - the nil interface value:           [k |-> "nil"]                    *)
(* A panic is the field panic = TRUE of an operation's result.             *)
(***************************************************************************)
EXTENDS Integers, Sequences, FiniteSets, TLC

VARIABLES heap, ropes, fibCache, Debug, reader, last, gor, lock

vars == <<heap, ropes, fibCache, Debug, reader, last, gor, lock>>

\* The goroutines inside getFibCache, the state of fibLock and the package
\* variable Debug: what the operations on ropes leave alone.
fibVars == <<gor, lock, Debug>>

(***************************************************************************)
(* Bounds of the model.                                                    *)
(***************************************************************************)
NReg == 1
MaxLeafLen == 2
MaxHeap == 2
MaxArgs == 2
MaxWrap == 2
MaxArg == 3
MaxBuf == 2
MaxStack == 4
MaxOut == 6
MaxEofs == 2
MaxFreshLen == 1
NChars == 1
MaxNodes == 8
MaxAppends == 257
MaxNodeHeap == 2
MaxNodeArg == 3
NGor == 3
MaxCalls == 2

Regs == 1..NReg

\* The strings given to New: runs of consecutive element codes, so that every
\* reordering of the elements of a rope changes its content.
Strs == {[i \in 1..n |-> c + i - 1] : n \in 0..MaxLeafLen, c \in 1..NChars}

ArgRange == (0 - 1)..MaxArg

(***************************************************************************)
(* Program constants.                                                      *)
(***************************************************************************)
DepthMod == 256
RLenHalf == 65536

\* x > int64(^rLenT(0)), i.e. x >= 2^32, written over 16-bit halves.
OutOfRLenT(x) == x \div RLenHalf >= RLenHalf

Max(a, b) == IF a > b THEN a ELSE b
Min(a, b) == IF a < b THEN a ELSE b

(***************************************************************************)
(* Values.                                                                 *)
(***************************************************************************)
Nil == [k |-> "nil"]
Leaf(s) == [k |-> "leaf", s |-> s]
Ptr(a) == [k |-> "concat", a |-> a]
RopeV(n) == [k |-> "Rope", node |-> n]

emptyNode == Leaf(<<>>)
emptyRope == RopeV(emptyNode)

New(arg) == IF Len(arg) = 0 THEN emptyRope ELSE RopeV(Leaf(arg))

(***************************************************************************)
(* node.depth() and node.length()                                          *)
(***************************************************************************)
RECURSIVE depth(_, _)
depth(h, n) ==
  CASE n.k = "leaf" -> 0
    [] n.k = "concat" -> h[n.a].TreeDepth
    [] n.k = "Rope" -> depth(h, n.node)

RECURSIVE length(_, _)
rLength(h, c) == IF c.RLen > 0 THEN c.RLen ELSE length(h, c.Right)

\* length that counts one element too many in a leaf.
lengthOffByOne(h, n) ==
  CASE n.k = "leaf" -> Len(n.s) + 1
    [] n.k = "concat" -> h[n.a].Split + rLength(h, h[n.a])
    [] n.k = "Rope" -> length(h, n.node)

length(h, n) ==
  CASE n.k = "leaf" -> Len(n.s)
    [] n.k = "concat" -> h[n.a].Split + rLength(h, h[n.a])
    [] n.k = "Rope" -> length(h, n.node)

RopeLen(h, r) == IF r.node = Nil THEN 0 ELSE length(h, r.node)

(***************************************************************************)
(* WriteTo: the elements a node writes to the sink, in order.              *)
(***************************************************************************)
RECURSIVE WriteTo(_, _)
WriteTo(h, n) ==
  CASE n.k = "leaf" -> n.s
    [] n.k = "concat" -> WriteTo(h, h[n.a].Left) \o WriteTo(h, h[n.a].Right)
    [] n.k = "Rope" -> IF n.node = Nil THEN <<>> ELSE WriteTo(h, n.node)

Bytes(h, r) == IF r.node = Nil THEN <<>> ELSE WriteTo(h, r)

String(h, r) ==
  IF r.node = Nil THEN <<>>
  ELSE IF r.node.k = "leaf" THEN r.node.s
  ELSE Bytes(h, r)

(***************************************************************************)
(* conc and concMany                                                       *)
(***************************************************************************)
\* conc with its operands joined in the wrong order.
concSwapped(h, lhs, rhs, lhsLength, rhsLength) ==
  IF lhs = emptyNode THEN [h |-> h, n |-> rhs]
  ELSE IF rhs = emptyNode THEN [h |-> h, n |-> lhs]
  ELSE [h |-> Append(h, [Left |-> rhs, Right |-> lhs,
                         TreeDepth |-> (Max(depth(h, lhs), depth(h, rhs)) + 1) % DepthMod,
                         Split |-> length(h, rhs), RLen |-> length(h, lhs)]),
        n |-> Ptr(Len(h) + 1)]

conc(h, lhs, rhs, lhsLength, rhsLength) ==
  IF lhs = emptyNode THEN [h |-> h, n |-> rhs]
  ELSE IF rhs = emptyNode THEN [h |-> h, n |-> lhs]
  ELSE LET dl == depth(h, lhs)
           dr == depth(h, rhs)
           d == IF dr > dl THEN dr ELSE dl
           ll == IF lhsLength <= 0 THEN length(h, lhs) ELSE lhsLength
           rl0 == IF rhsLength <= 0 THEN length(h, rhs) ELSE rhsLength
           rl == IF OutOfRLenT(rl0) THEN 0 ELSE rl0
           c == [Left |-> lhs, Right |-> rhs, TreeDepth |-> (d + 1) % DepthMod,
                 Split |-> ll, RLen |-> rl]
       IN [h |-> Append(h, c), n |-> Ptr(Len(h) + 1)]

RECURSIVE concMany(_, _, _)
\* concMany that peels off one operand at a time instead of halving the list.
concManyLinear(h, first, others) ==
  LET f == IF first = Nil THEN emptyNode ELSE first
  IN IF Len(others) = 0 THEN [h |-> h, n |-> f]
     ELSE LET r == concMany(h, others[1], SubSeq(others, 2, Len(others)))
          IN conc(r.h, f, r.n, 0, 0)

concMany(h, first, others) ==
  LET f == IF first = Nil THEN emptyNode ELSE first
  IN IF Len(others) = 0 THEN [h |-> h, n |-> f]
     ELSE LET split == Len(others) \div 2
              l == concMany(h, f, SubSeq(others, 1, split))
              r == concMany(l.h, others[split + 1],
                            SubSeq(others, split + 2, Len(others)))
          IN conc(r.h, l.n, r.n, 0, 0)

(***************************************************************************)
(* Rope.Concat                                                             *)
(***************************************************************************)
RECURSIVE SkipNil(_, _)
SkipNil(r, rhs) ==
  IF r.node = Nil /\ Len(rhs) > 0 THEN SkipNil(rhs[1], Tail(rhs))
  ELSE [r |-> r, rhs |-> rhs]

RECURSIVE NodeList(_)
NodeList(rhs) ==
  IF rhs = <<>> THEN <<>>
  ELSE IF rhs[1].node # Nil THEN <<rhs[1].node>> \o NodeList(Tail(rhs))
  ELSE NodeList(Tail(rhs))

Concat(h, r0, rhs0) ==
  LET s == SkipNil(r0, rhs0)
  IN IF Len(s.rhs) = 0 THEN [h |-> h, r |-> s.r]
     ELSE LET res == concMany(h, s.r, NodeList(s.rhs))
          IN [h |-> res.h, r |-> RopeV(res.n)]

(***************************************************************************)
(* dropPrefix and dropPostfix on nodes                                     *)
(***************************************************************************)
leafDropPrefix(l, start) ==
  IF start >= Len(l.s) THEN emptyNode
  ELSE IF start <= 0 THEN l
  ELSE Leaf(SubSeq(l.s, start + 1, Len(l.s)))

leafDropPostfix(l, end) ==
  IF end >= Len(l.s) THEN l
  ELSE IF end <= 0 THEN emptyNode
  ELSE Leaf(SubSeq(l.s, 1, end))

RECURSIVE dropPrefix(_, _, _)
\* concat.dropPrefix that forgets to make start relative to the right child.
concatDropPrefixAbsolute(h, n, start) ==
  LET c == h[n.a]
  IN IF start <= 0 THEN [h |-> h, n |-> n]
     ELSE IF start < c.Split
       THEN LET l == dropPrefix(h, c.Left, start)
            IN conc(l.h, l.n, c.Right, c.Split - start, c.RLen)
     ELSE dropPrefix(h, c.Right, start)

\* concat.dropPrefix that shortens the receiver's left child in place.
concatDropPrefixInPlace(h, n, start) ==
  LET c == h[n.a]
  IN IF start <= 0 THEN [h |-> h, n |-> n]
     ELSE IF start < c.Split
       THEN LET l == dropPrefix(h, c.Left, start)
            IN [h |-> [l.h EXCEPT ![n.a].Left = l.n,
                                  ![n.a].Split = c.Split - start],
                n |-> n]
     ELSE dropPrefix(h, c.Right, start - c.Split)

\* concat.dropPrefix that returns a copy of the receiver when nothing is
\* dropped.
concatDropPrefixCopy(h, n, start) ==
  LET c == h[n.a]
  IN IF start <= 0 THEN conc(h, c.Left, c.Right, c.Split, c.RLen)
     ELSE IF start < c.Split
       THEN LET l == dropPrefix(h, c.Left, start)
            IN conc(l.h, l.n, c.Right, c.Split - start, c.RLen)
     ELSE dropPrefix(h, c.Right, start - c.Split)

concatDropPrefix(h, n, start) ==
  LET c == h[n.a]
  IN IF start <= 0 THEN [h |-> h, n |-> n]
     ELSE IF start < c.Split
       THEN LET l == dropPrefix(h, c.Left, start)
            IN conc(l.h, l.n, c.Right, c.Split - start, c.RLen)
     ELSE dropPrefix(h, c.Right, start - c.Split)

dropPrefix(h, n, start) ==
  CASE n.k = "leaf" -> [h |-> h, n |-> leafDropPrefix(n, start)]
    [] n.k = "concat" -> concatDropPrefix(h, n, start)
    [] n.k = "Rope" -> dropPrefix(h, n.node, start)

RECURSIVE dropPostfix(_, _, _)
\* concat.dropPostfix that passes the absolute end as the new right length.
concatDropPostfixAbsoluteLen(h, n, end) ==
  LET c == h[n.a]
  IN IF end <= 0 THEN [h |-> h, n |-> emptyNode]
     ELSE IF end <= c.Split THEN dropPostfix(h, c.Left, end)
     ELSE IF end >= c.Split + rLength(h, c) THEN [h |-> h, n |-> n]
     ELSE LET r == dropPostfix(h, c.Right, end - c.Split)
          IN conc(r.h, c.Left, r.n, c.Split, end)

concatDropPostfix(h, n, end) ==
  LET c == h[n.a]
  IN IF end <= 0 THEN [h |-> h, n |-> emptyNode]
     ELSE IF end <= c.Split THEN dropPostfix(h, c.Left, end)
     ELSE IF end >= c.Split + rLength(h, c) THEN [h |-> h, n |-> n]
     ELSE LET e == end - c.Split
              r == dropPostfix(h, c.Right, e)
          IN conc(r.h, c.Left, r.n, c.Split, e)

dropPostfix(h, n, end) ==
  CASE n.k = "leaf" -> [h |-> h, n |-> leafDropPostfix(n, end)]
    [] n.k = "concat" -> concatDropPostfix(h, n, end)
    [] n.k = "Rope" -> dropPostfix(h, n.node, end)

(***************************************************************************)
(* slice on nodes.  Precondition: start < end.  The source holds no        *)
(* leaf.slice; a leaf's slice is dropPostfix(end) followed by              *)
(* dropPrefix(start).                                                      *)
(***************************************************************************)
leafSlice(l, start, end) == leafDropPrefix(leafDropPostfix(l, end), start)

RECURSIVE slice(_, _, _, _)
concatSlice(h, n, start, end) ==
  LET c == h[n.a]
  IN IF end <= c.Split THEN slice(h, c.Left, start, end)
     ELSE IF start >= c.Split
       THEN slice(h, c.Right, start - c.Split, end - c.Split)
     ELSE LET clength == c.Split + length(h, c.Right)
          IN IF start <= 0 /\ end >= clength THEN [h |-> h, n |-> n]
             ELSE LET cutLeft == start > 0 \/ end < c.Split
                      l == IF cutLeft THEN slice(h, c.Left, start, end)
                           ELSE [h |-> h, n |-> c.Left]
                      leftLen == IF cutLeft THEN 0 - 1 ELSE c.Split
                      cutRight == start > c.Split \/ end < clength
                      r == IF cutRight
                           THEN slice(l.h, c.Right, start - c.Split, end - c.Split)
                           ELSE [h |-> l.h, n |-> c.Right]
                      rightLen == IF cutRight THEN 0 - 1 ELSE c.RLen
                  IN conc(r.h, l.n, r.n, leftLen, rightLen)

slice(h, n, start, end) ==
  CASE n.k = "leaf" -> [h |-> h, n |-> leafSlice(n, start, end)]
    [] n.k = "concat" -> concatSlice(h, n, start, end)
    [] n.k = "Rope" -> slice(h, n.node, start, end)

(***************************************************************************)
(* Rope.DropPrefix, Rope.DropPostfix, Rope.Slice                           *)
(***************************************************************************)
DropPrefix(h, r, start) ==
  IF start = 0 \/ r.node = Nil THEN [h |-> h, r |-> r]
  ELSE LET res == dropPrefix(h, r.node, start)
       IN [h |-> res.h, r |-> RopeV(res.n)]

DropPostfix(h, r, end) ==
  IF r.node = Nil THEN [h |-> h, r |-> r]
  ELSE LET res == dropPrefix(h, r.node, end)
       IN [h |-> res.h, r |-> RopeV(res.n)]

Slice(h, r, start0, end) ==
  LET start == IF start0 < 0 THEN 0 ELSE start0
  IN IF start >= end THEN [h |-> h, r |-> emptyRope]
     ELSE LET p == DropPostfix(h, r, end)
          IN DropPrefix(p.h, p.r, start)

(***************************************************************************)
(* The reference meaning of the Go string expressions s[a:b].              *)
(***************************************************************************)
Sub(s, a, b) == SubSeq(s, a + 1, b)

(***************************************************************************)
(* Nesting of Rope values inside a root (a Rope passed as a node).         *)
(***************************************************************************)
RECURSIVE WrapDepth(_)
WrapDepth(n) == IF n.k = "Rope" THEN 1 + WrapDepth(n.node) ELSE 0

(***************************************************************************)
(* The Fibonacci cache.  fibInit is the initial value of the package       *)
(* variable fibCache.  Go slices are indexed from 0: element i of a slice  *)
(* is element i + 1 of the sequence, and an index outside 0..len-1 panics. *)
(***************************************************************************)
fibInit ==
  <<1, 2, 3, 5, 8, 13, 21, 34, 55, 89, 144, 233, 377, 610, 987,
    1597, 2584, 4181, 6765, 10946, 17711, 28657, 46368, 75025, 121393,
    196418, 317811, 514229, 832040>>

InRange(i, arr) == 0 <= i /\ i < Len(arr)

RECURSIVE binLoop(_, _, _, _)
\* The loop of binSearch returning start, not end, when the interval closes.
binLoopReturnsStart(N, arr, start, end) ==
  IF end - start > 1
  THEN LET mid == (start + end) \div 2
           elt == arr[mid + 1]
       IN IF elt < N THEN binLoop(N, arr, mid, end)
          ELSE IF N < elt THEN binLoop(N, arr, start, mid)
          ELSE mid
  ELSE start

binLoop(N, arr, start, end) ==
  IF end - start > 1
  THEN LET mid == (start + end) \div 2
           elt == arr[mid + 1]
       IN IF elt < N THEN binLoop(N, arr, mid, end)
          ELSE IF N < elt THEN binLoop(N, arr, start, mid)
          ELSE mid
  ELSE end

\* binSearch with the virtual element before the array placed at index 0.
binSearchFromZero(N, arr) ==
  binLoop(N, arr, 0, Len(arr))

binSearch(N, arr) ==
  binLoop(N, arr, 0 - 1, Len(arr))

RECURSIVE fibLoop(_, _, _, _)
fibLoop(cache, a, b, N) ==
  IF b < N THEN fibLoop(Append(cache, a + b), b, a + b, N) ELSE cache

extendFibs(cache, N) ==
  fibLoop(cache, cache[Len(cache) - 1], cache[Len(cache)], N)

\* The result: the slice returned (fibs), the cache afterwards, or a panic.
getFibCache(cache, N) ==
  LET i == Len(cache)
  IN IF ~InRange(i, cache)
     THEN [panic |-> TRUE, fibs |-> <<>>, cache |-> cache]
     ELSE IF cache[i + 1] < N
     THEN [panic |-> FALSE, fibs |-> extendFibs(cache, N),
           cache |-> extendFibs(cache, N)]
     ELSE [panic |-> FALSE, fibs |-> cache, cache |-> cache]

reverseFib(cache, N) ==
  LET g == getFibCache(cache, N)
  IN IF g.panic THEN [panic |-> TRUE, idx |-> 0, cache |-> g.cache]
     ELSE [panic |-> FALSE, idx |-> binSearch(N, g.fibs), cache |-> g.cache]

isBalanced(h, cache, r) ==
  IF r.node = Nil \/ r.node = emptyNode
  THEN [panic |-> FALSE, res |-> TRUE, cache |-> cache]
  ELSE LET rf == reverseFib(cache, RopeLen(h, r))
       IN IF rf.panic THEN [panic |-> TRUE, res |-> FALSE, cache |-> rf.cache]
          ELSE [panic |-> FALSE, res |-> depth(h, r.node) <= rf.idx - 2,
                cache |-> rf.cache]

(***************************************************************************)
(* Rope.Rebalance                                                          *)
(***************************************************************************)
RECURSIVE walkLeaves(_, _)
walkLeaves(h, n) ==
  CASE n.k = "leaf" -> <<n>>
    [] n.k = "concat" -> walkLeaves(h, h[n.a].Left) \o walkLeaves(h, h[n.a].Right)
    [] n.k = "Rope" -> walkLeaves(h, n.node)

\* for i := bucket; i >= 0; i-- { b := scratch[bucket]; ... }
RECURSIVE mergeLoop(_, _, _, _, _, _)
mergeLoop(h, scratch, bucket, i, n, nLen) ==
  IF i < 0 THEN [h |-> h, scratch |-> scratch, n |-> n, nLen |-> nLen]
  ELSE LET b == scratch[bucket + 1]
       IN IF b.n # Nil
          THEN LET c == conc(h, n, b.n, nLen, b.len)
               IN mergeLoop(c.h, [scratch EXCEPT ![bucket + 1].n = Nil],
                            bucket, i - 1, c.n, nLen + b.len)
          ELSE mergeLoop(h, scratch, bucket, i - 1, n, nLen)

\* The function Rebalance passes to walkLeaves, applied to leaf l.
visitLeaf(st, fibs, l) ==
  LET nLen == Len(l.s)
      bucket == binSearch(nLen, fibs)
  IN IF st.panic \/ ~InRange(bucket, st.scratch) THEN [st EXCEPT !.panic = TRUE]
     ELSE LET m == mergeLoop(st.h, st.scratch, bucket, bucket, l, nLen)
          IN IF Debug /\ binSearch(m.nLen, fibs) # bucket
             THEN [st EXCEPT !.panic = TRUE]
             ELSE [h |-> m.h, panic |-> FALSE,
                   scratch |-> [m.scratch EXCEPT ![bucket + 1] =
                                   [n |-> m.n, len |-> m.nLen]]]

RECURSIVE visitAll(_, _, _)
visitAll(st, fibs, ls) ==
  IF ls = <<>> THEN st ELSE visitAll(visitLeaf(st, fibs, ls[1]), fibs, Tail(ls))

\* nw := B{}; for _, b := range scratch { ... }
RECURSIVE foldScratch(_, _, _, _)
foldScratch(h, scratch, i, nw) ==
  IF i > Len(scratch) THEN [h |-> h, nw |-> nw]
  ELSE LET b == scratch[i]
       IN IF b.n = Nil THEN foldScratch(h, scratch, i + 1, nw)
          ELSE IF nw.n = Nil THEN foldScratch(h, scratch, i + 1, b)
          ELSE LET c == conc(h, b.n, nw.n, b.len, nw.len)
               IN foldScratch(c.h, scratch, i + 1,
                              [n |-> c.n, len |-> nw.len + b.len])

Rebalance(h, cache, r) ==
  LET len == RopeLen(h, r)
      g == getFibCache(cache, len)
  IN IF g.panic THEN [panic |-> TRUE, h |-> h, cache |-> g.cache, r |-> r]
     ELSE IF r.node = Nil THEN [panic |-> TRUE, h |-> h, cache |-> g.cache, r |-> r]
     ELSE LET size == 1 + binSearch(len, g.fibs)
              st0 == [h |-> h, panic |-> FALSE,
                      scratch |-> [i \in 1..size |-> [n |-> Nil, len |-> 0]]]
              st == visitAll(st0, g.fibs, walkLeaves(h, r.node))
          IN IF st.panic
             THEN [panic |-> TRUE, h |-> h, cache |-> g.cache, r |-> r]
             ELSE LET f == foldScratch(st.h, st.scratch, 1, [n |-> Nil, len |-> 0])
                  IN [panic |-> FALSE, h |-> f.h, cache |-> g.cache,
                      r |-> IF f.nw.n = r.node THEN r ELSE RopeV(f.nw.n)]

(***************************************************************************)
(* Reader                                                                  *)
(***************************************************************************)
zeroReader == [stack |-> <<>>, cur |-> <<>>, pos |-> 0, panic |-> FALSE]

\* n.(*concat) panics when n is neither a leaf nor a *concat.
RECURSIVE pushSubtree(_, _, _)
pushSubtree(h, r, n) ==
  IF n.k = "leaf" THEN [r EXCEPT !.cur = n.s, !.pos = 0]
  ELSE IF n.k # "concat" THEN [r EXCEPT !.panic = TRUE]
  ELSE pushSubtree(h, [r EXCEPT !.stack = Append(r.stack, n)], h[n.a].Left)

NewReader(h, rope) ==
  IF rope.node # Nil THEN pushSubtree(h, zeroReader, rope.node) ELSE zeroReader

\* r.stack[:len(r.stack)-1] panics on an empty stack.
nextNode(h, r) ==
  IF Len(r.stack) = 0 THEN [r EXCEPT !.panic = TRUE]
  ELSE LET r1 == [r EXCEPT !.stack = SubSeq(r.stack, 1, Len(r.stack) - 1)]
       IN IF Len(r1.stack) # 0 THEN pushSubtree(h, r1, r1.stack[Len(r1.stack)])
          ELSE r1

\* Read with a buffer of k elements.  err is "nil", "EOF" or "panic"; data
\* is what the call copied into the buffer.  fuel bounds the iterations of
\* the loop of one call ("diverge" when it runs out).
RECURSIVE Read(_, _, _, _)
Read(h, r, k, fuel) ==
  IF r.pos = Len(r.cur)
  THEN IF fuel = 0 THEN [r |-> r, data |-> <<>>, err |-> "diverge"]
       ELSE LET r1 == nextNode(h, r)
            IN IF r1.panic THEN [r |-> r1, data |-> <<>>, err |-> "panic"]
               ELSE IF Len(r1.stack) = 0 THEN [r |-> r1, data |-> <<>>, err |-> "EOF"]
               ELSE Read(h, r1, k, fuel - 1)
  ELSE LET n == Min(k, Len(r.cur) - r.pos)
       IN [r |-> [r EXCEPT !.pos = r.pos + n],
           data |-> SubSeq(r.cur, r.pos + 1, r.pos + n), err |-> "nil"]

(***************************************************************************)
(* The Go runtime: concat structs that no rope and no reader can reach any *)
(* longer are reclaimed, and an address is observable only through         *)
(* equality.  After every operation the heap keeps the reachable structs   *)
(* only, in allocation order.                                              *)
(***************************************************************************)
RECURSIVE PtrsOf(_)
PtrsOf(n) ==
  IF n.k = "concat" THEN {n.a}
  ELSE IF n.k = "Rope" THEN PtrsOf(n.node)
  ELSE {}

RECURSIVE Live(_, _, _)
Live(h, a, acc) ==
  IF a = 0 THEN acc
  ELSE Live(h, a - 1,
            IF a \in acc
            THEN acc \cup PtrsOf(h[a].Left) \cup PtrsOf(h[a].Right)
            ELSE acc)

Rank(live, a) == Cardinality({b \in live : b <= a})

RECURSIVE Move(_, _)
Move(live, n) ==
  IF n.k = "concat" THEN Ptr(Rank(live, n.a))
  ELSE IF n.k = "Rope" THEN RopeV(Move(live, n.node))
  ELSE n

Compact(h, live) ==
  LET addr(i) == CHOOSE a \in live : Rank(live, a) = i
  IN [i \in 1..Cardinality(live) |->
        [h[addr(i)] EXCEPT !.Left = Move(live, h[addr(i)].Left),
                           !.Right = Move(live, h[addr(i)].Right)]]

ReaderPtrs(rd) ==
  IF rd.st = "open" THEN {rd.stack[i].a : i \in 1..Len(rd.stack)} ELSE {}

MoveReader(live, rd) ==
  IF rd.st = "open"
  THEN [rd EXCEPT !.stack = [i \in 1..Len(rd.stack) |-> Move(live, rd.stack[i])]]
  ELSE rd

Roots(rs, rd) == UNION {PtrsOf(rs[i]) : i \in Regs} \cup ReaderPtrs(rd)

\* The state after an operation that left heap h, registers rs and reader rd.
Commit(h, rs, rd, l) ==
  LET live == Live(h, Len(h), Roots(rs, rd))
  IN /\ Cardinality(live) <= MaxHeap
     /\ \A i \in Regs : WrapDepth(rs[i]) <= MaxWrap
     /\ heap' = Compact(h, live)
     /\ ropes' = [i \in Regs |-> Move(live, rs[i])]
     /\ reader' = MoveReader(live, rd)
     /\ last' = l
     /\ UNCHANGED fibVars

(***************************************************************************)
(* What a client can observe of a rope: its content, its length and the    *)
(* fields of every node reachable from it.                                 *)
(***************************************************************************)
RECURSIVE Unfold(_, _)
Unfold(h, n) ==
  CASE n.k = "concat" ->
         [k |-> "concat", Left |-> Unfold(h, h[n.a].Left),
          Right |-> Unfold(h, h[n.a].Right), Split |-> h[n.a].Split,
          RLen |-> h[n.a].RLen, TreeDepth |-> h[n.a].TreeDepth]
    [] n.k = "Rope" -> RopeV(Unfold(h, n.node))
    [] OTHER -> n

Observed(h, r) ==
  [str |-> String(h, r), len |-> RopeLen(h, r), tree |-> Unfold(h, r)]

\* An operation that took heap h to h2 left the ropes rs as they were.
Frame(h, h2, rs) ==
  /\ Len(h2) >= Len(h)
  /\ SubSeq(h2, 1, Len(h)) = h
  /\ \A r \in rs : Observed(h2, r) = Observed(h, r)

RecvKind(r) ==
  IF r.node = Nil THEN "nil"
  ELSE IF r.node = emptyNode THEN "emptyNode"
  ELSE "other"

(***************************************************************************)
(* Concurrent calls of getFibCache.  Each goroutine executes the           *)
(* statements of getFibCache and extendFibs one at a time; pc names the    *)
(* statement it executes next.  fibLock is a sync.RWMutex: r[g] counts the *)
(* read locks goroutine g holds, w is the goroutine holding the write lock *)
(* (0: none) and wait holds the goroutines blocked in Lock, which keep new *)
(* readers out.                                                            *)
(***************************************************************************)
Gors == 1..NGor

\* The arguments N of the calls: covered by the initial cache, and beyond it.
FibArgs == {1, 832041, 2200000}

idleGor ==
  [pc |-> "idle", N |-> 0, a |-> 0, b |-> 0, ret |-> <<>>, res |-> "none",
   calls |-> 0]

freeLock == [r |-> [g \in Gors |-> 0], w |-> 0, wait |-> {}]

CanRLock(l) == l.w = 0 /\ l.wait = {}

CanLock(l) == l.w = 0 /\ \A g \in Gors : l.r[g] = 0

\* The statement goroutine g, in state s, executes next under lock state l
\* and cache c: whether it can run (ok) and the state it leaves.
FibStmt(g, s, l, c) ==
  CASE s.pc = "RLock" ->
         \* getFibCache: fibLock.RLock(); defer fibLock.RUnlock()
         [ok |-> CanRLock(l), s |-> [s EXCEPT !.pc = "check"],
          l |-> [l EXCEPT !.r[g] = @ + 1], c |-> c]
    [] s.pc = "check" ->
         \* if fibCache[len(fibCache)] < N
         LET i == Len(c)
         IN [ok |-> TRUE,
             s |-> IF ~InRange(i, c)
                   THEN [s EXCEPT !.pc = "deferRUnlock", !.res = "panicked"]
                   ELSE IF c[i + 1] < s.N THEN [s EXCEPT !.pc = "xRUnlock"]
                   ELSE [s EXCEPT !.pc = "return"],
             l |-> l, c |-> c]
    [] s.pc = "xRUnlock" ->
         \* extendFibs: fibLock.RUnlock()
         [ok |-> TRUE,
          s |-> [s EXCEPT !.pc = IF l.r[g] > 0 THEN "xLock" ELSE "fatal"],
          l |-> IF l.r[g] > 0 THEN [l EXCEPT !.r[g] = @ - 1] ELSE l, c |-> c]
    [] s.pc = "xLock" ->
         \* fibLock.Lock(): taken when free, else the goroutine waits
         IF CanLock(l)
         THEN [ok |-> TRUE, s |-> [s EXCEPT !.pc = "xRead"],
               l |-> [l EXCEPT !.w = g, !.wait = @ \ {g}], c |-> c]
         ELSE [ok |-> g \notin l.wait, s |-> s,
               l |-> [l EXCEPT !.wait = @ \cup {g}], c |-> c]
    [] s.pc = "xRead" ->
         \* a, b := fibCache[len(fibCache)-2], fibCache[len(fibCache)-1]
         [ok |-> TRUE,
          s |-> [s EXCEPT !.pc = "xLoop", !.a = c[Len(c) - 1], !.b = c[Len(c)]],
          l |-> l, c |-> c]
    [] s.pc = "xLoop" ->
         \* for b < N { a, b = b, a+b; fibCache = append(fibCache, b) }
         IF s.b < s.N
         THEN [ok |-> TRUE, s |-> [s EXCEPT !.a = s.b, !.b = s.a + s.b],
               l |-> l, c |-> Append(c, s.a + s.b)]
         ELSE [ok |-> TRUE, s |-> [s EXCEPT !.pc = "xUnlock"], l |-> l, c |-> c]
    [] s.pc = "xUnlock" ->
         \* deferred in extendFibs: fibLock.Unlock()
         [ok |-> TRUE,
          s |-> [s EXCEPT !.pc = IF l.w = g THEN "xRLock" ELSE "fatal"],
          l |-> IF l.w = g THEN [l EXCEPT !.w = 0] ELSE l, c |-> c]
    [] s.pc = "xRLock" ->
         \* deferred in extendFibs: fibLock.RLock()
         [ok |-> CanRLock(l), s |-> [s EXCEPT !.pc = "return"],
          l |-> [l EXCEPT !.r[g] = @ + 1], c |-> c]
    [] s.pc = "return" ->
         \* return fibCache
         [ok |-> TRUE,
          s |-> [s EXCEPT !.pc = "deferRUnlock", !.res = "returned", !.ret = c],
          l |-> l, c |-> c]
    [] s.pc = "deferRUnlock" ->
         \* deferred in getFibCache: fibLock.RUnlock()
         [ok |-> TRUE,
          s |-> [s EXCEPT !.pc = IF l.r[g] > 0 THEN "done" ELSE "fatal"],
          l |-> IF l.r[g] > 0 THEN [l EXCEPT !.r[g] = @ - 1] ELSE l, c |-> c]
    [] OTHER -> [ok |-> FALSE, s |-> s, l |-> l, c |-> c]

noReader ==
  [st |-> "none", stack |-> <<>>, cur |-> <<>>, pos |-> 0,
   reg |-> 0, src |-> <<>>, out |-> <<>>, err |-> "nil", eofs |-> 0]

Init ==
  /\ heap = <<>>
  /\ ropes = [i \in Regs |-> RopeV(Nil)]
  /\ fibCache = fibInit
  /\ Debug = TRUE
  /\ reader = noReader
  /\ last = [op |-> "init"]
  /\ gor = [g \in Gors |-> idleGor]
  /\ lock = freeLock

\* The ropes Concat can be given: the client's ropes, Rope{} and New(s) for
\* the strings s of at most MaxFreshLen elements.
Operands ==
  {ropes[i] : i \in Regs} \cup {RopeV(Nil)}
    \cup {New(s) : s \in {t \in Strs : Len(t) <= MaxFreshLen}}

ArgLists == UNION {[1..n -> Operands] : n \in 0..MaxArgs}

StrsOf(h, rs) == [i \in 1..Len(rs) |-> String(h, rs[i])]

KindsOf(rs) == [i \in 1..Len(rs) |-> RecvKind(rs[i])]

RECURSIVE Flatten(_)
Flatten(ss) == IF ss = <<>> THEN <<>> ELSE ss[1] \o Flatten(Tail(ss))

DoNew ==
  \E dst \in Regs, arg \in Strs :
    /\ reader.st = "none"
    /\ Commit(heap, [ropes EXCEPT ![dst] = New(arg)], reader,
              [op |-> "New", dst |-> dst])
    /\ UNCHANGED fibCache

DoConcat ==
  \E dst \in Regs, r \in Operands, rhs \in ArgLists :
    LET res == Concat(heap, r, rhs)
    IN /\ reader.st = "none"
       /\ Commit(res.h, [ropes EXCEPT ![dst] = res.r], reader,
                 [op |-> "Concat", dst |-> dst,
                  recv |-> String(heap, r), args |-> StrsOf(heap, rhs),
                  kinds |-> <<RecvKind(r)>> \o KindsOf(rhs),
                  frame |-> Frame(heap, res.h, {r} \cup {rhs[i] : i \in 1..Len(rhs)})])
       /\ UNCHANGED fibCache

DoDropPrefix ==
  \E dst \in Regs, src \in Regs, start \in ArgRange :
    LET r == ropes[src]
        res == DropPrefix(heap, r, start)
    IN /\ reader.st = "none"
       /\ Commit(res.h, [ropes EXCEPT ![dst] = res.r], reader,
                 [op |-> "DropPrefix", dst |-> dst, kind |-> RecvKind(r),
                  recv |-> String(heap, r), start |-> start,
                  frame |-> Frame(heap, res.h, {r})])
       /\ UNCHANGED fibCache

DoDropPostfix ==
  \E dst \in Regs, src \in Regs, end \in ArgRange :
    LET r == ropes[src]
        res == DropPostfix(heap, r, end)
    IN /\ reader.st = "none"
       /\ Commit(res.h, [ropes EXCEPT ![dst] = res.r], reader,
                 [op |-> "DropPostfix", dst |-> dst, kind |-> RecvKind(r),
                  recv |-> String(heap, r), end |-> end,
                  frame |-> Frame(heap, res.h, {r})])
       /\ UNCHANGED fibCache

DoSlice ==
  \E dst \in Regs, src \in Regs, start \in ArgRange, end \in ArgRange :
    LET r == ropes[src]
        res == Slice(heap, r, start, end)
    IN /\ reader.st = "none"
       /\ Commit(res.h, [ropes EXCEPT ![dst] = res.r], reader,
                 [op |-> "Slice", dst |-> dst, kind |-> RecvKind(r),
                  recv |-> String(heap, r), start |-> start, end |-> end,
                  frame |-> Frame(heap, res.h, {r})])
       /\ UNCHANGED fibCache

DoRebalance ==
  \E dst \in Regs, src \in Regs :
    LET r == ropes[src]
        res == Rebalance(heap, fibCache, r)
    IN /\ reader.st = "none"
       /\ Commit(res.h,
                 IF res.panic THEN ropes ELSE [ropes EXCEPT ![dst] = res.r],
                 reader,
                 [op |-> "Rebalance", dst |-> dst, kind |-> RecvKind(r),
                  recv |-> String(heap, r), panic |-> res.panic,
                  frame |-> Frame(heap, res.h, {r})])
       /\ fibCache' = res.cache

DoIsBalanced ==
  \E src \in Regs :
    LET res == isBalanced(heap, fibCache, ropes[src])
    IN /\ reader.st = "none"
       /\ Commit(heap, ropes, reader,
                 [op |-> "isBalanced", src |-> src, panic |-> res.panic,
                  res |-> res.res])
       /\ fibCache' = res.cache

DoNewReader ==
  \E src \in Regs :
    LET r == NewReader(heap, ropes[src])
    IN /\ reader.st = "none"
       /\ Commit(heap, ropes,
                 [st |-> IF r.panic THEN "panicked" ELSE "open",
                  stack |-> IF r.panic THEN <<>> ELSE r.stack,
                  cur |-> r.cur, pos |-> r.pos,
                  reg |-> src, src |-> String(heap, ropes[src]), out |-> <<>>,
                  err |-> IF r.panic THEN "panic" ELSE "nil", eofs |-> 0],
                 [op |-> "NewReader", src |-> src])
       /\ UNCHANGED fibCache

DoRead ==
  \E k \in 1..MaxBuf :
    LET res == Read(heap, [stack |-> reader.stack, cur |-> reader.cur,
                           pos |-> reader.pos, panic |-> FALSE], k, MaxStack + 1)
        r == res.r
    IN /\ reader.st = "open"
       /\ Len(reader.stack) <= MaxStack
       /\ Len(reader.out) < MaxOut
       /\ reader.eofs < MaxEofs
       /\ Commit(heap, ropes,
                 [st |-> IF res.err \in {"panic", "diverge"} THEN "panicked" ELSE "open",
                  stack |-> IF res.err \in {"panic", "diverge"} THEN <<>> ELSE r.stack,
                  cur |-> r.cur, pos |-> r.pos,
                  reg |-> reader.reg, src |-> reader.src,
                  out |-> reader.out \o res.data,
                  err |-> res.err,
                  eofs |-> reader.eofs + (IF res.err = "EOF" THEN 1 ELSE 0)],
                 [op |-> "Read", k |-> k, n |-> Len(res.data), err |-> res.err])
       /\ UNCHANGED fibCache

\* The client lets go of its reader.
DoDropReader ==
  /\ reader.st # "none"
  /\ Commit(heap, ropes, noReader, [op |-> "DropReader"])
  /\ UNCHANGED fibCache

Next ==
  \/ DoNew
  \/ DoConcat
  \/ DoDropPrefix
  \/ DoDropPostfix
  \/ DoSlice
  \/ DoRebalance
  \/ DoIsBalanced
  \/ DoNewReader
  \/ DoRead
  \/ DoDropReader

Spec == Init /\ [][Next]_vars

RopeOps == {"Concat", "DropPrefix", "DropPostfix", "Slice", "Rebalance"}

Result == String(heap, ropes[last.dst])

\* C1: r.Concat(x1, ..., xn) materializes to r.String() followed by the
\* strings of x1, ..., xn in that order, also when r or some xi is Rope{} or
\* New("").
ConcatContent ==
  last.op = "Concat" => Result = last.recv \o Flatten(last.args)

\* A call on the nil-rooted Rope{} with two different non-empty arguments,
\* which builds a Concat node.
ConcatContentWitness ==
  /\ last.op = "Concat"
  /\ Len(last.args) = 2
  /\ last.kinds[1] = "nil"
  /\ last.args[1] # <<>>
  /\ last.args[2] # <<>>
  /\ last.args[1] # last.args[2]
  /\ ropes[last.dst].node.k = "concat"

\* C2: for 0 <= start <= end <= r.Len(), r.Slice(start, end).String() is
\* r.String()[start:end].
SliceContent ==
  (last.op = "Slice" /\ 0 <= last.start /\ last.start <= last.end
     /\ last.end <= Len(last.recv)) =>
    Result = Sub(last.recv, last.start, last.end)

\* C3: r.DropPostfix(end).String() is r.String()[:end] for 0 <= end <= Len,
\* empty for end <= 0 and r.String() for end >= Len.
DropPostfixContent ==
  last.op = "DropPostfix" =>
    /\ (0 <= last.end /\ last.end <= Len(last.recv)) =>
         Result = Sub(last.recv, 0, last.end)
    /\ last.end <= 0 => Result = <<>>
    /\ last.end >= Len(last.recv) => Result = last.recv

\* C4: r.DropPrefix(start).String() is r.String()[start:] for
\* 0 <= start <= Len, r.String() for start <= 0 and empty for start >= Len.
DropPrefixContent ==
  last.op = "DropPrefix" =>
    /\ (0 <= last.start /\ last.start <= Len(last.recv)) =>
         Result = Sub(last.recv, last.start, Len(last.recv))
    /\ last.start <= 0 => Result = last.recv
    /\ last.start >= Len(last.recv) => Result = <<>>

\* A drop inside the left child of a Concat node: the result is a new Concat
\* node over the shortened left child.
DropPrefixContentWitness ==
  /\ last.op = "DropPrefix"
  /\ 0 < last.start
  /\ last.start < Len(last.recv)
  /\ ropes[last.dst].node.k = "concat"
  /\ Result # <<>>

\* C5: r.Rebalance() completes and has the content of r.
RebalanceContent ==
  last.op = "Rebalance" => (~last.panic /\ Result = last.recv)

\* C6: isBalanced(r.Rebalance()) is true.
RebalanceBalanced ==
  last.op = "Rebalance" =>
    /\ ~last.panic
    /\ ~isBalanced(heap, fibCache, ropes[last.dst]).panic
    /\ isBalanced(heap, fibCache, ropes[last.dst]).res

\* C7: reading a rope to io.EOF with any buffer size delivers exactly
\* r.String(): no call panics, and EOF comes only after every element.
ReaderComplete ==
  /\ reader.err # "panic"
  /\ reader.err # "diverge"
  /\ reader.err = "EOF" => reader.out = reader.src

\* C8: both forms of the empty rope (Rope{} and New("")) have Len() 0,
\* String() "" and write nothing, and DropPrefix, DropPostfix and Slice give
\* a rope with empty content for every integer argument.
EmptyRope ==
  /\ \A i \in Regs :
       RecvKind(ropes[i]) \in {"nil", "emptyNode"} =>
         /\ RopeLen(heap, ropes[i]) = 0
         /\ String(heap, ropes[i]) = <<>>
         /\ WriteTo(heap, ropes[i]) = <<>>
  /\ (last.op \in {"DropPrefix", "DropPostfix", "Slice"}
        /\ last.kind \in {"nil", "emptyNode"}) => Result = <<>>

\* New("").Slice(s, e) with s < 0 < e, as in TestEmptyRope.
EmptyRopeWitness ==
  /\ last.op = "Slice"
  /\ last.kind = "emptyNode"
  /\ last.start < 0
  /\ last.end > 0
  /\ RopeLen(heap, ropes[last.dst]) = 0

\* C9: no operation changes an existing rope: a rope operation leaves every
\* concat struct allocated before it, and the content, length, depth and
\* node fields of the ropes it was given, as they were; the reader
\* operations and isBalanced leave the heap and the ropes untouched.
Immutable ==
  [][/\ last'.op \in RopeOps => last'.frame
     /\ last'.op \in {"NewReader", "Read", "DropReader", "isBalanced"} =>
          (heap' = heap /\ ropes' = ropes)]_vars

\* A rope operation on a tree that allocated a Concat node next to the one
\* it was given.
ImmutableWitness ==
  /\ last.op = "DropPrefix"
  /\ last.frame
  /\ last.start > 0
  /\ Len(heap) = 2
  /\ ropes[last.dst].node.k = "concat"

\* C10: Slice normalizes its range: the result is
\* r.String()[max(start,0):min(end,Len)] when that range is not empty, and
\* the empty string when start >= end, end <= 0 or start >= Len.
SliceNormalized ==
  last.op = "Slice" =>
    LET lo == Max(last.start, 0)
        hi == Min(last.end, Len(last.recv))
    IN /\ lo < hi => Result = Sub(last.recv, lo, hi)
       /\ (last.start >= last.end \/ last.end <= 0
             \/ last.start >= Len(last.recv)) => Result = <<>>

\* C11: Rebalance is idempotent: r.Rebalance().Rebalance() completes with
\* the content and the depth of r.Rebalance().
RebalanceIdempotent ==
  last.op = "Rebalance" =>
    /\ ~last.panic
    /\ LET once == ropes[last.dst]
           again == Rebalance(heap, fibCache, once)
       IN /\ ~again.panic
          /\ String(again.h, again.r) = String(heap, once)
          /\ depth(again.h, again.r) = depth(heap, once)

\* The sequence 1, 2, 3, 5, 8, 13, ... indexed from 0.
F(i) == fibInit[i + 1]

\* C12: isBalanced(r) completes; for a non-empty rope of length n and depth d
\* it is true exactly when n <= F[d+2], and for an empty rope it is true.
IsBalancedDefinition ==
  last.op = "isBalanced" =>
    LET r == ropes[last.src]
        n == RopeLen(heap, r)
    IN /\ ~last.panic
       /\ n = 0 => last.res
       /\ n > 0 => (last.res <=> n <= F(depth(heap, r) + 2))

(***************************************************************************)
(* A program that makes one concMany call, or one variadic Rope.Concat     *)
(* call, on single-leaf operands.                                          *)
(***************************************************************************)
Leaves == {Leaf(<<1>>), Leaf(<<1, 2>>)}

LeafLists == UNION {[1..n -> Leaves] : n \in 1..MaxNodes}

CallConcMany ==
  \E ls \in LeafLists :
    LET res == concMany(<<>>, ls[1], Tail(ls))
    IN /\ last.op = "init"
       /\ heap' = res.h
       /\ ropes' = [i \in Regs |-> RopeV(res.n)]
       /\ last' = [op |-> "concMany", N |-> Len(ls),
                   want |-> Flatten([i \in 1..Len(ls) |-> ls[i].s])]
       /\ UNCHANGED <<fibCache, reader, fibVars>>

CallConcat ==
  \E ls \in LeafLists :
    LET res == Concat(<<>>, RopeV(ls[1]), [i \in 1..(Len(ls) - 1) |-> RopeV(ls[i + 1])])
    IN /\ last.op = "init"
       /\ heap' = res.h
       /\ ropes' = [i \in Regs |-> res.r]
       /\ last' = [op |-> "ConcatLeaves", N |-> Len(ls),
                   want |-> Flatten([i \in 1..Len(ls) |-> ls[i].s])]
       /\ UNCHANGED <<fibCache, reader, fibVars>>

NextConcMany ==
  \/ CallConcMany
  \/ CallConcat

SpecConcMany == Init /\ [][NextConcMany]_vars

\* The smallest k with 2^k >= n.
CeilLog2(n) == CHOOSE k \in 0..n : 2^k >= n /\ \A j \in 0..(k - 1) : 2^j < n

\* C13: one concMany call (one variadic Concat call) on N >= 1 non-empty
\* single-leaf nodes yields a tree of depth at most ceil(log2(N)).
ConcManyDepth ==
  last.op \in {"concMany", "ConcatLeaves"} =>
    \A i \in Regs : depth(heap, ropes[i]) <= CeilLog2(last.N)

\* Five leaves joined by one call into a tree of depth 3 that holds them in
\* order.
ConcManyDepthWitness ==
  /\ last.op = "ConcatLeaves"
  /\ last.N = 5
  /\ Len(heap) = 4
  /\ \A i \in Regs : depth(heap, ropes[i]) = 3 /\ String(heap, ropes[i]) = last.want

(***************************************************************************)
(* A program that builds a rope by appending one-element ropes, one call   *)
(* at a time, starting from Rope{} (the loop of the test's init), and then *)
(* rebalances it.                                                          *)
(***************************************************************************)
AppendOne ==
  \E i \in Regs :
    LET r == ropes[i]
        x == New(<<1>>)
        res == Concat(heap, r, <<x>>)
    IN /\ last.op \in {"init", "Append"}
       /\ RopeLen(heap, r) < MaxAppends
       /\ heap' = res.h
       /\ ropes' = [j \in Regs |-> res.r]
       /\ last' = [op |-> "Append", n |-> RopeLen(heap, r) + 1,
                   conc |-> r.node # Nil,
                   ldepth |-> IF r.node = Nil THEN 0 ELSE depth(heap, r),
                   rdepth |-> depth(heap, x)]
       /\ UNCHANGED <<fibCache, reader, fibVars>>

RebalanceChain ==
  \E i \in Regs :
    LET r == ropes[i]
        res == Rebalance(heap, fibCache, r)
    IN /\ last.op = "Append"
       /\ heap' = res.h
       /\ ropes' = IF res.panic THEN ropes ELSE [j \in Regs |-> res.r]
       /\ fibCache' = res.cache
       /\ last' = [op |-> "RebalanceChain", n |-> last.n, panic |-> res.panic]
       /\ UNCHANGED <<reader, fibVars>>

NextAppend ==
  \/ AppendOne
  \/ RebalanceChain

SpecAppend == Init /\ [][NextAppend]_vars

\* The smallest d with F[d+2] >= n.
MinDepthFor(n) ==
  CHOOSE d \in 0..(Len(fibInit) - 3) :
    F(d + 2) >= n /\ \A e \in 0..(d - 1) : F(e + 2) < n

\* C14: for a rope r built by appending n one-element ropes one call at a
\* time, n in 1..100, r.Rebalance() completes with a depth no greater than
\* the smallest d for which F[d+2] >= n.
RebalanceDepthBound ==
  (last.op = "RebalanceChain" /\ last.n \in 1..100) =>
    /\ ~last.panic
    /\ \A i \in Regs : depth(heap, ropes[i]) <= MinDepthFor(last.n)

\* C19: for non-empty operands lhs and rhs the node returned by conc has
\* depth exactly 1 + max(depth(lhs), depth(rhs)), also when the deeper
\* operand has depth 255.
ConcDepth ==
  (last.op = "Append" /\ last.conc) =>
    \A i \in Regs : depth(heap, ropes[i]) = 1 + Max(last.ldepth, last.rdepth)

\* C15: with a non-empty buffer every Read call either reports io.EOF or
\* delivers at least one element with a nil error, also when the current
\* leaf was exhausted at the start of the call; none returns (0, nil).
ReadDelivers ==
  last.op = "Read" =>
    \/ last.err = "EOF"
    \/ last.err = "nil" /\ last.n >= 1

\* A node value that is nil, or a Rope value around nil.
RECURSIVE HoldsNil(_)
HoldsNil(n) == n = Nil \/ (n.k = "Rope" /\ HoldsNil(n.node))

NonEmptyChild(h, n) == ~HoldsNil(n) /\ length(h, n) > 0

\* C17: in every tree produced by New, Concat, Slice, DropPrefix, DropPostfix
\* and Rebalance, both children of every Concat node are non-nil and have
\* length > 0.
ConcatChildrenNonEmpty ==
  \A a \in 1..Len(heap) :
    NonEmptyChild(heap, heap[a].Left) /\ NonEmptyChild(heap, heap[a].Right)

(***************************************************************************)
(* Code of the package working on nodes directly (as the reader test does  *)
(* with conc): a node n is built with conc and Rope.Concat and its         *)
(* dropPrefix, dropPostfix and slice methods are called.  The register     *)
(* holds Rope{n}.                                                          *)
(***************************************************************************)
NodeArgRange == (0 - 1)..MaxNodeArg

CommitNode(h, n, l) ==
  LET live == Live(h, Len(h), PtrsOf(n))
  IN /\ Cardinality(live) <= MaxNodeHeap
     /\ WrapDepth(n) <= MaxWrap
     /\ heap' = Compact(h, live)
     /\ ropes' = [i \in Regs |-> RopeV(Move(live, n))]
     /\ last' = l
     /\ UNCHANGED <<fibCache, reader, fibVars>>

\* What a method call on the *concat n, which left heap h2 and returned m,
\* shared with its receiver.
Sharing(h, n, h2, m) ==
  [recv |-> n.k,
   split |-> IF n.k = "concat" THEN h[n.a].Split ELSE 0,
   same |-> m = n,
   fresh |-> m.k = "concat" /\ m.a > Len(h),
   sameRight |-> m.k = "concat" /\ n.k = "concat" /\ h2[m.a].Right = h[n.a].Right,
   allocated |-> Len(h2) - Len(h)]

NodeLeaf ==
  \E l \in Leaves \cup {emptyNode} :
    /\ l.k = "leaf"
    /\ CommitNode(heap, l, [op |-> "leaf"])

NodeConc ==
  \E i \in Regs :
    \E lhs \in Leaves \cup {emptyNode, ropes[i].node},
       rhs \in Leaves \cup {emptyNode, ropes[i].node} :
      LET res == conc(heap, lhs, rhs, 0, 0)
      IN /\ lhs # Nil
         /\ rhs # Nil
         /\ CommitNode(res.h, res.n, [op |-> "conc"])

NodeConcat ==
  \E i \in Regs, x \in Leaves \cup {emptyNode} :
    LET res == Concat(heap, ropes[i], <<RopeV(x)>>)
    IN /\ res.r.node # Nil
       /\ CommitNode(res.h, res.r.node, [op |-> "Concat"])

NodeDropPrefix ==
  \E i \in Regs, start \in NodeArgRange :
    LET n == ropes[i].node
        res == dropPrefix(heap, n, start)
    IN /\ n # Nil
       /\ CommitNode(res.h, res.n,
                     [op |-> "dropPrefix", start |-> start,
                      sh |-> Sharing(heap, n, res.h, res.n),
                      right |-> IF n.k = "concat"
                                THEN res = dropPrefix(heap, heap[n.a].Right,
                                                      start - heap[n.a].Split)
                                ELSE FALSE])

NodeDropPostfix ==
  \E i \in Regs, end \in NodeArgRange :
    LET n == ropes[i].node
        res == dropPostfix(heap, n, end)
    IN /\ n # Nil
       /\ CommitNode(res.h, res.n,
                     [op |-> "dropPostfix", end |-> end,
                      sh |-> Sharing(heap, n, res.h, res.n)])

NodeSlice ==
  \E i \in Regs, start \in NodeArgRange, end \in NodeArgRange :
    LET n == ropes[i].node
        res == slice(heap, n, start, end)
    IN /\ n # Nil
       /\ start < end
       /\ CommitNode(res.h, res.n,
                     [op |-> "slice", sh |-> Sharing(heap, n, res.h, res.n)])

NodeRebalance ==
  \E i \in Regs :
    LET res == Rebalance(heap, fibCache, ropes[i])
    IN /\ heap' = res.h
       /\ ropes' = IF res.panic THEN ropes ELSE [j \in Regs |-> res.r]
       /\ fibCache' = res.cache
       /\ last' = [op |-> "Rebalance", panic |-> res.panic]
       /\ UNCHANGED <<reader, fibVars>>

NextNode ==
  \/ NodeLeaf
  \/ NodeConc
  \/ NodeConcat
  \/ NodeDropPrefix
  \/ NodeDropPostfix
  \/ NodeSlice
  \/ NodeRebalance

SpecNode == Init /\ [][NextNode]_vars

\* C18: for every Concat node created by any operation, split is the actual
\* length of the left child, the cached right length is 0 or the actual
\* length of the right child, and length() is length(left) + length(right).
ConcatLengths ==
  \A a \in 1..Len(heap) :
    LET c == heap[a]
        left == Len(WriteTo(heap, c.Left))
        right == Len(WriteTo(heap, c.Right))
    IN /\ c.Split = left
       /\ c.RLen \in {0, right}
       /\ length(heap, Ptr(a)) = left + right

\* concat.dropPostfix has cut into the right child of a Concat node and built
\* a new Concat node from known lengths.
ConcatLengthsWitness ==
  /\ last.op = "dropPostfix"
  /\ last.sh.recv = "concat"
  /\ last.sh.fresh
  /\ last.end > last.sh.split
  /\ \E i \in Regs : ropes[i].node.k = "concat"
                       /\ heap[ropes[i].node.a].RLen = last.end - last.sh.split

\* C20: concat.dropPrefix(start) shares untouched subtrees: for start <= 0
\* it returns the receiver itself; for 0 < start < split the result is a
\* Concat node whose right child is the receiver's right child; otherwise,
\* for start >= split, it returns exactly right.dropPrefix(start - split)
\* and builds no Concat node of its own.  The three cases are those of the
\* method's switch, taken in its order.
DropPrefixSharing ==
  (last.op = "dropPrefix" /\ last.sh.recv = "concat") =>
    /\ last.start <= 0 => (last.sh.same /\ last.sh.allocated = 0)
    /\ (0 < last.start /\ last.start < last.sh.split) =>
         (last.sh.fresh /\ last.sh.sameRight)
    /\ (0 < last.start /\ last.start >= last.sh.split) =>
         (last.right /\ ~(last.sh.fresh /\ last.sh.sameRight))

\* A drop inside the left child: a new Concat node over the receiver's own
\* right child.
DropPrefixSharingWitness ==
  /\ last.op = "dropPrefix"
  /\ last.sh.recv = "concat"
  /\ 0 < last.start
  /\ last.start < last.sh.split
  /\ last.sh.fresh
  /\ last.sh.sameRight
  /\ last.sh.allocated = 1

(***************************************************************************)
(* A program whose goroutines call getFibCache concurrently.              *)
(***************************************************************************)
\* Goroutine g calls getFibCache(N).
FibCall ==
  \E g \in Gors, N \in FibArgs :
    /\ gor[g].pc \in {"idle", "done"}
    /\ gor[g].calls < MaxCalls
    /\ gor' = [gor EXCEPT ![g] = [@ EXCEPT !.pc = "RLock", !.N = N,
                                          !.res = "none", !.calls = @ + 1]]
    /\ UNCHANGED <<heap, ropes, fibCache, Debug, reader, last, lock>>

\* Goroutine g executes its next statement.
FibStep ==
  \E g \in Gors :
    LET st == FibStmt(g, gor[g], lock, fibCache)
    IN /\ st.ok
       /\ gor' = [gor EXCEPT ![g] = st.s]
       /\ lock' = st.l
       /\ fibCache' = st.c
       /\ UNCHANGED <<heap, ropes, Debug, reader, last>>

NextFib ==
  \/ FibCall
  \/ FibStep

SpecFib == Init /\ [][NextFib]_vars

IsPrefix(s, t) == Len(s) <= Len(t) /\ SubSeq(t, 1, Len(s)) = s

MaxScratchLeaves == 3

\* Leaves of one and of two elements; two of them differ in content only.
ScratchLeaves == {Leaf(<<1>>), Leaf(<<2>>), Leaf(<<1, 2>>)}

\* scratch := make([]B, 1+binSearch(len, fibs))
newScratch(len, fibs) ==
  [i \in 1..(1 + binSearch(len, fibs)) |-> [n |-> Nil, len |-> 0]]

\* The states of the walk after each leaf of ls, in order.
RECURSIVE walkTrace(_, _, _)
walkTrace(st, fibs, ls) ==
  IF ls = <<>> THEN <<>>
  ELSE LET s1 == visitLeaf(st, fibs, ls[1])
       IN <<s1>> \o walkTrace(s1, fibs, Tail(ls))

\* if b := binSearch(nLen, fibs); b != bucket: the slot index of the merged
\* length differs from the slot the node is about to be stored in.
bucketGrew(st, fibs, l) ==
  LET bucket == binSearch(Len(l.s), fibs)
  IN /\ ~st.panic
     /\ InRange(bucket, st.scratch)
     /\ binSearch(mergeLoop(st.h, st.scratch, bucket, bucket, l, Len(l.s)).nLen,
                  fibs) # bucket

\* The non-empty scratch slots concatenated in order of decreasing index.
ScratchContent(h, scratch) ==
  Flatten([i \in 1..Len(scratch) |->
             LET b == scratch[Len(scratch) + 1 - i]
             IN IF b.n = Nil THEN <<>> ELSE WriteTo(h, b.n)])

\* The program appends a one-leaf rope to its rope.
ScratchBuild ==
  \E i \in Regs, l \in ScratchLeaves :
    LET res == Concat(heap, ropes[i], <<RopeV(l)>>)
    IN /\ last.op \in {"init", "build"}
       /\ last.op = "build" => last.n < MaxScratchLeaves
       /\ heap' = res.h
       /\ ropes' = [j \in Regs |-> res.r]
       /\ last' = [op |-> "build",
                   n |-> IF last.op = "build" THEN last.n + 1 ELSE 1]
       /\ UNCHANGED <<fibCache, reader, fibVars>>

\* The program assigns to rope.Debug.
SetDebug ==
  \E b \in BOOLEAN :
    /\ last.op \in {"init", "build"}
    /\ b # Debug
    /\ Debug' = b
    /\ UNCHANGED <<heap, ropes, fibCache, reader, last, gor, lock>>

\* rebalance.go:111-146 on the program's rope.  The result is dropped; last
\* keeps what every step of the walk left behind.
ScratchWalk ==
  \E i \in Regs :
    LET r == ropes[i]
        fibs == fibCache
        ls == walkLeaves(heap, r.node)
        st0 == [h |-> heap, panic |-> FALSE,
                scratch |-> newScratch(RopeLen(heap, r), fibs)]
        tr == walkTrace(st0, fibs, ls)
        pre(k) == IF k = 1 THEN st0 ELSE tr[k - 1]
        end == tr[Len(tr)]
        f == foldScratch(end.h, end.scratch, 1, [n |-> Nil, len |-> 0])
    IN /\ last.op = "build"
       /\ last' = [op |-> "walk", debug |-> Debug,
                   leaves |-> [k \in 1..Len(ls) |-> ls[k].s],
                   steps |-> [k \in 1..Len(ls) |->
                     [panic |-> tr[k].panic,
                      grew |-> bucketGrew(pre(k), fibs, ls[k]),
                      index |-> ~pre(k).panic
                                  /\ ~InRange(binSearch(Len(ls[k].s), fibs),
                                              pre(k).scratch),
                      content |-> IF tr[k].panic THEN <<>>
                                  ELSE ScratchContent(tr[k].h, tr[k].scratch)]],
                   done |-> ~end.panic,
                   res |-> IF end.panic THEN <<>> ELSE WriteTo(f.h, f.nw.n)]
       /\ UNCHANGED <<heap, ropes, fibCache, reader, fibVars>>

NextScratch ==
  \/ ScratchBuild
  \/ SetDebug
  \/ ScratchWalk

SpecScratch == Init /\ [][NextScratch]_vars

NoBucketGrew ==
  (/\ last.op = "walk"
   /\ last.debug
   /\ \A k \in DOMAIN last.leaves : last.leaves[k] # <<>>) =>
    /\ last.done
    /\ \A k \in DOMAIN last.steps :
         ~last.steps[k].grew /\ ~last.steps[k].index /\ ~last.steps[k].panic

(***************************************************************************)
(* binSearch called on sorted arrays.                                      *)
(***************************************************************************)
MaxArrLen == 3
MaxElt == 4

Sorted(arr) == \A i \in 1..(Len(arr) - 1) : arr[i] <= arr[i + 1]

StrictlyIncreasing(arr) == \A i \in 1..(Len(arr) - 1) : arr[i] < arr[i + 1]

\* The sorted arrays of at most MaxArrLen elements of 1..MaxElt.
SortedArrays ==
  {arr \in UNION {[1..n -> 1..MaxElt] : n \in 0..MaxArrLen} : Sorted(arr)}

\* One call binSearch(N, arr).
CallBinSearch ==
  \E arr \in SortedArrays, N \in (0 - 1)..(MaxElt + 1) :
    /\ last.op = "init"
    /\ last' = [op |-> "binSearch", N |-> N, arr |-> arr,
                res |-> binSearch(N, arr)]
    /\ UNCHANGED <<heap, ropes, fibCache, reader, fibVars>>

NextBinSearch ==
  \/ CallBinSearch

SpecBinSearch == Init /\ [][NextBinSearch]_vars

\* C23: for a strictly increasing array arr, binSearch(N, arr) returns the
\* index i in 0..len(arr) of the smallest element >= N: every element before
\* i is < N and, if i < len(arr), arr[i] >= N; for the empty array it is 0.
BinSearchSmallest ==
  (last.op = "binSearch" /\ StrictlyIncreasing(last.arr)) =>
    /\ last.res \in 0..Len(last.arr)
    /\ \A j \in 0..(last.res - 1) : last.arr[j + 1] < last.N
    /\ last.res < Len(last.arr) => last.arr[last.res + 1] >= last.N
    /\ last.arr = <<>> => last.res = 0

\* N lies strictly between two elements of a three-element array.
BinSearchSmallestWitness ==
  /\ last.op = "binSearch"
  /\ last.arr = <<1, 2, 4>>
  /\ last.N = 3
  /\ last.res = 2

FibSeq(s) ==
  /\ Len(s) >= 2
  /\ s[1] = 1
  /\ s[2] = 2
  /\ \A i \in 3..Len(s) : s[i] = s[i - 1] + s[i - 2]
  /\ \A i \in 1..(Len(s) - 1) : s[i] < s[i + 1]

\* C25: every call getFibCache(N) ends by returning, without a fault, a
\* sequence that starts 1, 2, is strictly increasing, continues by summing
\* the two entries before, and ends with an entry >= N; the cache is
\* appended to only by a call whose N is above the last entry.
GetFibCacheCovers ==
  [][/\ \A g \in Gors :
          (gor[g].pc # "done" /\ gor'[g].pc = "done") =>
            /\ gor'[g].res = "returned"
            /\ FibSeq(gor'[g].ret)
            /\ gor'[g].ret[Len(gor'[g].ret)] >= gor'[g].N
     /\ fibCache' # fibCache =>
          \E g \in Gors : /\ gor'[g] # gor[g]
                          /\ fibCache[Len(fibCache)] < gor[g].N]_vars

\* C28: under every interleaving of getFibCache calls no call is stuck on
\* fibLock (while some call is under way, some call can take its next step),
\* every call ends by returning, and a goroutine whose call has ended holds
\* neither the read lock nor the write lock and waits for neither; no unlock
\* hits a lock that is not held.
GetFibCacheReturns ==
  /\ \A g \in Gors :
       /\ gor[g].pc # "fatal"
       /\ gor[g].pc = "done" =>
            /\ gor[g].res = "returned"
            /\ lock.r[g] = 0
            /\ lock.w # g
            /\ g \notin lock.wait
  /\ (\E g \in Gors : gor[g].pc \notin {"idle", "done"}) =>
       \E g \in Gors : /\ gor[g].pc \notin {"idle", "done"}
                       /\ FibStmt(g, gor[g], lock, fibCache).ok

\* C26: Rebalance of Rope{} and of New("") returns, without panicking, a
\* rope with empty content for which isBalanced is true.
RebalanceEmpty ==
  (last.op = "Rebalance" /\ last.kind \in {"nil", "emptyNode"}) =>
    /\ ~last.panic
    /\ Result = <<>>
    /\ ~isBalanced(heap, fibCache, ropes[last.dst]).panic
    /\ isBalanced(heap, fibCache, ropes[last.dst]).res

\* C29: once a Reader has delivered all of its rope's content, the next Read
\* and every Read after it return (0, io.EOF): none panics and none delivers
\* a further element.
EofSticky ==
  [][(/\ reader.st = "open"
      /\ reader.out = reader.src
      /\ last'.op = "Read") =>
       (/\ last'.err = "EOF"
        /\ last'.n = 0
        /\ reader'.st = "open"
        /\ reader'.out = reader.out)]_vars

\* The children of the Concat node n.
Children(h, n) == {h[n.a].Left, h[n.a].Right}

\* C30: as long as a Reader created from rope r is in use, its stack holds
\* at most depth(r) entries, the entries are the Concat nodes on the path
\* from r's root to the current leaf (the first is the root, each further
\* one a child of the one before, the current leaf a child of the last),
\* and 0 <= pos <= len(cur).
ReaderPath ==
  reader.st = "open" =>
    LET r == ropes[reader.reg]
        n == Len(reader.stack)
    IN /\ n <= (IF r.node = Nil THEN 0 ELSE depth(heap, r))
       /\ \A i \in 1..n : reader.stack[i].k = "concat"
       /\ n > 0 => reader.stack[1] = r.node
       /\ \A i \in 1..(n - 1) :
            reader.stack[i + 1] \in Children(heap, reader.stack[i])
       /\ n > 0 => Leaf(reader.cur) \in Children(heap, reader.stack[n])
       /\ 0 <= reader.pos
       /\ reader.pos <= Len(reader.cur)

====
